---- MODULE Spec2Model ----
(***************************************************************************)
(* A model of the Geant4 material helper of NCrystal                       *)
(* (ncrystal_geant4/src/G4NCMatHelper.cc): the configuration-keyed cache   *)
(* of derived G4Materials (getG4MaterialWithCache), the composition-keyed  *)
(* cache of base materials (getBaseG4MaterialWithCache), the Geant4        *)
(* material table both caches index into, and the threads that call them.  *)
(***************************************************************************)
EXTENDS Integers, Sequences, FiniteSets, TLC

----------------------------------------------------------------------------
(* Bounds of the model.                                                    *)

\* number of threads calling getG4MaterialWithCache
NumThreads == 2
\* total number of calls of getG4MaterialWithCache, over all threads
MaxCalls == 3
\* number of G4Materials the Geant4 user deletes
MaxDeletes == 1
\* number of parameters of a configuration that is canonicalized
MaxPars == 2
\* number of entries of BUILTIN_PLUGIN_LIST
MaxPlugins == 3
\* number of calls of resolve
MaxResolves == 3

Threads == 1..NumThreads
\* value of a mutex nobody holds
NoThread == 0

----------------------------------------------------------------------------
(* Atomic numbers.                                                         *)

specialZValueDeuterium == 1001

zIsDeuterium(z) == z = specialZValueDeuterium

\* every atomic number passes
validNCrystalZValue_any(z) == TRUE

validNCrystalZValue(z) == (z > 0 /\ z < 120) \/ zIsDeuterium(z)

RECURSIVE greatestCommonDivisor(_, _)
greatestCommonDivisor(a, b) ==
  IF b # 0 THEN greatestCommonDivisor(b, a % b) ELSE a

----------------------------------------------------------------------------
(* The inputs: configurations, and what the NCrystal factories make of     *)
(* them.                                                                   *)

\* MatCfg parameters, in the order of their names
ParNames == <<"dcutoff", "packfact", "temp">>

ParDefault(name) ==
  CASE name = "temp" -> "293.15"
    [] name = "packfact" -> "1"
    [] OTHER -> "0"

\* The value a configuration gives a parameter: its last assignment, or
\* "" when it has none.
RECURSIVE ParValue(_, _)
ParValue(pars, name) ==
  IF pars = <<>> THEN ""
  ELSE IF pars[Len(pars)][1] = name THEN pars[Len(pars)][2]
  ELSE ParValue(SubSeq(pars, 1, Len(pars) - 1), name)

\* a canonical form that keeps the parameters set to their default
RECURSIVE CanonPars_keepsDefaults(_, _)
CanonPars_keepsDefaults(pars, i) ==
  IF i > Len(ParNames) THEN <<>>
  ELSE LET n == ParNames[i]
           v == ParValue(pars, n)
       IN (IF v = "" THEN <<>> ELSE << <<n, v>> >>)
          \o CanonPars_keepsDefaults(pars, i + 1)

\* cfg.toStrCfg(true,0): the data name as given, then the parameters that
\* are set to something else than their default, ordered by name.
RECURSIVE CanonPars(_, _)
CanonPars(pars, i) ==
  IF i > Len(ParNames) THEN <<>>
  ELSE LET n == ParNames[i]
           v == ParValue(pars, n)
       IN (IF v = "" \/ v = ParDefault(n) THEN <<>> ELSE << <<n, v>> >>)
          \o CanonPars(pars, i + 1)

\* a key that is the configuration as it was written
toStrCfg_asGiven(cfg) == [data |-> cfg.data, pars |-> cfg.pars]

toStrCfg(cfg) == [data |-> cfg.data, pars |-> CanonPars(cfg.pars, 1)]

\* the values a parameter is given: its default and another one
ParValues(name) ==
  {ParDefault(name)} \cup
    (CASE name = "temp" -> {"300"}
       [] name = "packfact" -> {"0.8"}
       [] OTHER -> {"0.5"})

ParAssignments ==
  UNION { { <<ParNames[i], v>> : v \in ParValues(ParNames[i]) } :
          i \in 1..Len(ParNames) }

\* the parameters of a well-formed configuration: each name once
WellFormedPars(n) ==
  { q \in [1..n -> ParAssignments] :
      \A i, j \in 1..n : i # j => q[i][1] # q[j][1] }

WellFormedCfgs ==
  { [data |-> d, pars |-> q] :
      d \in {"Al_sg225.ncmat", "D2O.ncmat"},
      q \in UNION { WellFormedPars(n) : n \in 0..MaxPars } }

\* The configurations the threads ask for.
Cfgs ==
  { [data |-> "Al_sg225.ncmat", pars |-> <<>>],
    [data |-> "Al_sg225.ncmat", pars |-> << <<"temp", "300">>, <<"packfact", "0.8">> >>],
    [data |-> "Al_sg225.ncmat", pars |-> << <<"packfact", "0.8">>, <<"temp", "300">> >>],
    [data |-> "Al_sg225.ncmat", pars |-> << <<"dcutoff", "999">> >>],
    [data |-> "nodensity.ncmat", pars |-> <<>>],
    [data |-> "D2O.ncmat", pars |-> <<>>] }

\* The constructor of MatCfg throws for a parameter it does not know.
MatCfgThrows(cfgstr) ==
  \E i \in 1..Len(cfgstr.pars) :
    \A j \in 1..Len(ParNames) : cfgstr.pars[i][1] # ParNames[j]

\* The configuration strings createMaterial is called with.
CfgStrs ==
  { [data |-> "Al_sg225.ncmat", pars |-> <<>>],
    [data |-> "Al_sg225.ncmat", pars |-> << <<"dcutoff", "999">> >>],
    [data |-> "Al_sg225.ncmat", pars |-> << <<"nosuchpar", "1">> >>],
    [data |-> "nodensity.ncmat", pars |-> <<>>],
    [data |-> "nocomposition.ncmat", pars |-> <<>>] }

\* the keys of the configurations
Keys == { toStrCfg(c) : c \in Cfgs \cup { c \in CfgStrs : ~MatCfgThrows(c) } }

\* NCrystal::createScatter(cfg) throws for a d-spacing cutoff out of range.
createScatterThrows(cfg) == ParValue(cfg.pars, "dcutoff") = "999"

\* NCrystal::createInfo(cfg): the Info object of the data file.
createInfo(cfg) ==
  CASE cfg.data = "Al_sg225.ncmat" ->
         [hasDensity |-> TRUE, hasComposition |-> TRUE, hasAtomInfo |-> TRUE,
          composition |-> << <<"Al", 100>> >>,
          atoms |-> << <<13, 4>> >>]
    [] cfg.data = "D2O.ncmat" ->
         [hasDensity |-> TRUE, hasComposition |-> TRUE, hasAtomInfo |-> TRUE,
          composition |-> << <<"D", 67>>, <<"O", 33>> >>,
          atoms |-> << <<8, 2>>, <<specialZValueDeuterium, 4>> >>]
    [] cfg.data = "nocomposition.ncmat" ->
         [hasDensity |-> TRUE, hasComposition |-> FALSE, hasAtomInfo |-> FALSE,
          composition |-> <<>>,
          atoms |-> <<>>]
    [] OTHER ->
         [hasDensity |-> FALSE, hasComposition |-> TRUE, hasAtomInfo |-> FALSE,
          composition |-> << <<"C", 50>>, <<"H", 50>> >>,
          atoms |-> <<>>]

----------------------------------------------------------------------------
(* Chemical formulas: sequences of <<atomic number, count>>.               *)

\* symbol_db.size(): G4NistManager::GetNistElementNames() of Geant4 has one
\* entry per atomic number below 108
symbol_db_size == 108

\* symbol_db.at(z), on the elements of the inputs
symbol_db(z) ==
  CASE z = 1 -> "H"
    [] z = 6 -> "C"
    [] z = 8 -> "O"
    [] z = 13 -> "Al"
    [] OTHER -> "?"

\* symbandcount << "Elem<" << z << ">", on the elements of the inputs
ElemName(z) ==
  CASE z = 110 -> "Elem<110>"
    [] OTHER -> "Elem<?>"

\* The symbol written for an atomic number; at: whether symbol_db.at(z) was
\* called for it; fallback: whether the "Elem<z>" branch was taken
SymbolOf(z) ==
  IF zIsDeuterium(z)
  THEN [symb |-> "D", at |-> FALSE, fallback |-> FALSE]
  ELSE IF z < symbol_db_size
  THEN [symb |-> symbol_db(z), at |-> TRUE, fallback |-> FALSE]
  ELSE [symb |-> ElemName(z), at |-> FALSE, fallback |-> TRUE]

\* G4NistManager::GetZ(name): 0 for a name Geant4 does not know
GetZ(name) ==
  CASE name = "H" -> 1
    [] name = "C" -> 6
    [] name = "O" -> 8
    [] name = "Al" -> 13
    [] OTHER -> 0

PairLess(a, b) == a[1] < b[1] \/ (a[1] = b[1] /\ a[2] < b[2])

\* the formula stays in the order of the atom list
SortPairs_asGiven(cf) == cf

\* std::sort of a ChemicalFormula
RECURSIVE InsertPair(_, _)
InsertPair(sorted, x) ==
  IF sorted = <<>> THEN <<x>>
  ELSE IF PairLess(x, Head(sorted)) THEN <<x>> \o sorted
  ELSE <<Head(sorted)>> \o InsertPair(Tail(sorted), x)

RECURSIVE SortPairs(_)
SortPairs(cf) ==
  IF cf = <<>> THEN <<>> ELSE InsertPair(SortPairs(Tail(cf)), Head(cf))

RECURSIVE GcdOfCounts(_, _)
GcdOfCounts(cf, i) ==
  IF i = 1 THEN cf[1][2]
  ELSE greatestCommonDivisor(GcdOfCounts(cf, i - 1), cf[i][2])

NonZeroAtoms(atoms) == SelectSeq(atoms, LAMBDA a : a[2] # 0)

\* the counts stay as they are in the unit cell
ReduceCounts_asGiven(cf, g) == cf

\* cf.at(i).second /= thegcd, for every i
RECURSIVE ReduceCounts(_, _)
ReduceCounts(cf, g) ==
  IF cf = <<>> THEN <<>>
  ELSE << <<Head(cf)[1], Head(cf)[2] \div g>> >> \o ReduceCounts(Tail(cf), g)

\* no material is taken for monoatomic
Monoatomic_never(info) == FALSE

\* whether getChemicalFormula takes the monoatomic shortcut for an Info
Monoatomic(info) ==
  /\ info.hasComposition
  /\ Len(info.composition) = 1
  /\ validNCrystalZValue(GetZ(info.composition[1][1]))

\* getChemicalFormula: [err, cf], err = "" when it returns normally
getChemicalFormula(info) ==
  IF Monoatomic(info)
  THEN [err |-> "", cf |-> << <<GetZ(info.composition[1][1]), 1>> >>]
  ELSE IF ~info.hasAtomInfo THEN [err |-> "", cf |-> <<>>]
  ELSE IF \E i \in 1..Len(info.atoms) : ~validNCrystalZValue(info.atoms[i][1])
  THEN [err |-> "BadInput: invalid atomic number", cf |-> <<>>]
  ELSE LET nz == NonZeroAtoms(info.atoms)
       IN IF nz = <<>>
          THEN [err |-> "BadInput: empty unit cell", cf |-> <<>>]
          ELSE LET g == GcdOfCounts(nz, Len(nz))
                   red == ReduceCounts(nz, g)
                   srt == SortPairs(red)
               IN IF \E i \in 1..(Len(srt) - 1) : srt[i][1] = srt[i + 1][1]
                  THEN [err |-> "BadInput: duplicate entries", cf |-> <<>>]
                  ELSE [err |-> "", cf |-> srt]

\* The sort keys of the Hill system, in the order of std::string's operator<
SortKeyOrder == <<"1", "2", "3", "Al", "C", "D", "H", "O", "{Elem<110>">>

SortKeyRank(k) == CHOOSE i \in 1..Len(SortKeyOrder) : SortKeyOrder[i] = k

\* One element of the formula: <<sort key, symbol, count>>
HillTerm(any_carbon, e) ==
  LET s == SymbolOf(e[1])
      key == IF s.fallback THEN "{" \o s.symb
             ELSE IF any_carbon /\ (e[1] = 1 \/ zIsDeuterium(e[1]) \/ e[1] = 6)
             THEN (IF e[1] = 6 THEN "1" ELSE IF e[1] = 1 THEN "2" ELSE "3")
             ELSE s.symb
  IN <<key, s.symb, e[2]>>

TermLess(a, b) ==
  \/ SortKeyRank(a[1]) < SortKeyRank(b[1])
  \/ a[1] = b[1] /\ a[3] < b[3]

RECURSIVE InsertTerm(_, _)
InsertTerm(sorted, x) ==
  IF sorted = <<>> THEN <<x>>
  ELSE IF TermLess(x, Head(sorted)) THEN <<x>> \o sorted
  ELSE <<Head(sorted)>> \o InsertTerm(Tail(sorted), x)

\* the terms stay in the order of the formula
SortTerms_asGiven(ts) == ts

RECURSIVE SortTerms(_)
SortTerms(ts) ==
  IF ts = <<>> THEN <<>> ELSE InsertTerm(SortTerms(Tail(ts)), Head(ts))

\* the loop over the formula that fills hillsystem_sort
RECURSIVE HillTerms(_, _)
HillTerms(any_carbon, chemform) ==
  IF chemform = <<>> THEN <<>>
  ELSE <<HillTerm(any_carbon, Head(chemform))>>
       \o HillTerms(any_carbon, Tail(chemform))

\* the loop that writes the second member of every sorted pair
RECURSIVE JoinTerms(_)
JoinTerms(ts) ==
  IF ts = <<>> THEN <<>>
  ELSE << (IF Head(ts)[3] # 1 THEN <<Head(ts)[2], Head(ts)[3]>>
           ELSE <<Head(ts)[2]>>) >> \o JoinTerms(Tail(ts))

\* getChemicalFormulaInHillSystemString: the string, as the sequence of its
\* terms, <<symbol, count>> or, for a count of 1, <<symbol>>
getChemicalFormulaInHillSystemString(chemform) ==
  LET any_carbon == \E i \in 1..Len(chemform) : chemform[i][1] = 6
  IN JoinTerms(SortTerms(HillTerms(any_carbon, chemform)))

\* The key of getBaseG4MaterialWithCache and the formula it is built from:
\* [err, key, cf], err = "" when the key can be made
chemform_str(info) ==
  LET r == getChemicalFormula(info)
  IN IF r.err # "" THEN [err |-> r.err, key |-> <<>>, cf |-> <<>>]
     ELSE IF r.cf = <<>>
     THEN IF ~info.hasComposition
          THEN [err |-> "MissingInfo: composition", key |-> <<>>, cf |-> <<>>]
          ELSE [err |-> "", key |-> << <<"_", 0>> >> \o info.composition, cf |-> <<>>]
     ELSE [err |-> "",
           key |-> getChemicalFormulaInHillSystemString(r.cf), cf |-> r.cf]

----------------------------------------------------------------------------
(* The state.                                                              *)

VARIABLES
  pc,          \* where each thread is in getG4MaterialWithCache
  loc,         \* its locals: cfg, cache_key, matBase, mat
  result,      \* what its last call returned or threw
  cache_mutex, \* the thread holding cache_mutex, or NoThread
  cache,       \* the static map of getG4MaterialWithCache: key -> index
  baseCache,   \* the static map of getBaseG4MaterialWithCache
  table,       \* G4Material::GetMaterialTable()
  s_deuterium, \* whether the Deuterium G4Element exists
  nScatter,    \* per key, the calls of NCrystal::createScatter so far
  nInfo,       \* per key, the calls of NCrystal::createInfo so far
  returned,    \* per key, the materials returned so far
  thrown,      \* per key, the errors thrown so far
  ncalls,      \* calls started so far
  ndeletes,    \* materials deleted so far
  canon,       \* a configuration and the key MatCfg::toStrCfg makes of it
  cmake,       \* the configuration run of CMakeLists.txt: the plugin names
  reg,         \* the plugin registry of the process and its resolve calls
  deut,        \* getDeuteriumG4Element: its statics and the threads in it
  chem         \* an Info object and the chemical formula made of it

\* the state of the material helper
g4vars == <<pc, loc, result, cache_mutex, cache, baseCache, table, s_deuterium,
            nScatter, nInfo, returned, thrown, ncalls, ndeletes>>

\* the state outside the material helper
others == <<canon, cmake, reg, deut, chem>>

vars == <<pc, loc, result, cache_mutex, cache, baseCache, table, s_deuterium,
          nScatter, nInfo, returned, thrown, ncalls, ndeletes, canon, cmake,
          reg, deut, chem>>

\* what a call has seen when it took cache_mutex
NoSeen == [len |-> 0, cache |-> <<>>, baseCache |-> <<>>]

NoLoc == [cfg |-> <<>>, key |-> <<>>, matBase |-> 0, mat |-> 0,
          via |-> "direct", seen |-> NoSeen]
NoResult == [kind |-> "none", key |-> <<>>, idx |-> 0, err |-> "",
             handled |-> 0]

\* no configuration is being canonicalized
NoKey == [data |-> "", pars |-> <<>>]
NoCanon == [cfg |-> NoKey, key |-> NoKey, from |-> NoKey]

\* CMake does not run
NoCMake == [BUILD_EXTRA |-> FALSE, all_plugin_names_lc |-> <<>>,
            NCPlugin_NAME |-> <<>>, entries |-> 0, error |-> "",
            pc |-> "none", MODIFY_RPATH |-> FALSE, APPLE |-> FALSE,
            BUILD_EXAMPLES |-> FALSE, BUILD_G4HOOKS |-> FALSE,
            Geant4_FOUND |-> FALSE,
            CMAKE_INSTALL_RPATH_USE_LINK_PATH |-> "",
            binaryprops |-> <<>>, libncg4props |-> <<>>,
            libncg4brops |-> <<>>,
            targets |-> <<>>]

\* no registry
NoReg == [dynload |-> FALSE, registered |-> {}, attempted |-> {},
          loaderrors |-> {}, pc |-> "idle", name |-> "", result |-> "none",
          loads |-> <<>>, lookups |-> 0, nresolves |-> 0]

\* getDeuteriumG4Element has not been called: s_deuterium is nullptr (0)
NoDeut == [pc |-> [t \in Threads |-> "idle"], s_mutex |-> NoThread,
           s_deuterium |-> 0, elements |-> 0, isotopes |-> 0,
           ret |-> [t \in Threads |-> 0], nret |-> [t \in Threads |-> 0],
           ncalls |-> 0]

\* no Info object
NoInfo == [hasDensity |-> FALSE, hasComposition |-> FALSE,
           hasAtomInfo |-> FALSE, composition |-> <<>>, atoms |-> <<>>]
NoChem == [pc |-> "none", info |-> NoInfo, err |-> "", cf |-> <<>>,
           key |-> <<>>, lookups |-> <<>>, elements |-> <<>>]

\* the state of the material helper before the first call
G4Init ==
  /\ pc = [t \in Threads |-> "idle"]
  /\ loc = [t \in Threads |-> NoLoc]
  /\ result = [t \in Threads |-> NoResult]
  /\ cache_mutex = NoThread
  /\ cache = <<>>
  /\ baseCache = <<>>
  /\ table = <<>>
  /\ s_deuterium = FALSE
  /\ nScatter = [k \in Keys |-> 0]
  /\ nInfo = [k \in Keys |-> 0]
  /\ returned = [k \in Keys |-> {}]
  /\ thrown = [k \in Keys |-> {}]
  /\ ncalls = 0
  /\ ndeletes = 0

Init ==
  /\ G4Init
  /\ canon = NoCanon
  /\ cmake = NoCMake
  /\ reg = NoReg
  /\ deut = NoDeut
  /\ chem = NoChem

\* the slot of the material table a cache entry designates holds a material
Live(idx) == table[idx].live

\* a lookup that never finds the key
CacheHit_never(map, key) == FALSE

\* a lookup that does not test the slot for NULL
CacheHit_noNullCheck(map, key) == key \in DOMAIN map

\* a lock that does not exclude
MutexFree_always == TRUE

\* a guard that ends at the lookup
MutexAfterMiss_released(t) == NoThread

\* an exception path that leaves the mutex locked
ReleaseOnThrow_keeps(t) == t

\* a function that installs the material without its scatter property
AfterNewMaterial_install == "install"

\* an insertion into a map that holds one entry only
MapPut_onlyLatest(map, key, idx) == (key :> idx)

\* a lookup by operator[], which inserts the key it does not find
MapAfterFind_inserts(map, key) ==
  IF key \in DOMAIN map THEN map ELSE (key :> 0) @@ map

\* a catch clause that does not match the exception
CatchTarget_uncaught(via) == "idle"

\* lines 292-296 and 216-220: the key is in the map and the slot is not NULL
CacheHit(map, key) == key \in DOMAIN map /\ Live(map[key])

\* cache[key] = index: the map keeps its other entries
MapPut(map, key, idx) == (key :> idx) @@ map

\* cache.find(key) leaves the map as it is
MapAfterFind(map, key) == map

\* std::lock_guard's constructor can take the mutex
MutexFree == cache_mutex = NoThread

\* the guard lives to the end of the function: a miss keeps the mutex
MutexAfterMiss(t) == t

\* std::lock_guard's destructor, when the function returns
ReleaseOnReturn(t) == NoThread

\* std::lock_guard's destructor, when an exception leaves the function
ReleaseOnThrow(t) == NoThread

\* where an exception that leaves getG4MaterialWithCache goes: to the catch
\* clause of createMaterial, or out to a caller of the function itself
CatchTarget(via) == IF via = "createMaterial" THEN "catch" ELSE "idle"

\* where the function goes after new G4Material: addScatterProperty
AfterNewMaterial == "attach"

----------------------------------------------------------------------------
(* getG4MaterialWithCache, step by step.                                   *)

Return(t, idx) ==
  /\ pc' = [pc EXCEPT ![t] = "idle"]
  /\ loc' = [loc EXCEPT ![t] = NoLoc]
  /\ result' = [result EXCEPT ![t] = [kind |-> "mat", key |-> loc[t].key,
                                       idx |-> idx, err |-> "", handled |-> 0]]
  /\ returned' = [returned EXCEPT ![loc[t].key] = @ \cup {idx}]
  /\ cache_mutex' = ReleaseOnReturn(t)
  /\ UNCHANGED thrown

Throw(t, e) ==
  /\ pc' = [pc EXCEPT ![t] = CatchTarget(loc[t].via)]
  /\ loc' = [loc EXCEPT ![t] = NoLoc]
  /\ result' = [result EXCEPT ![t] = [kind |-> "err", key |-> loc[t].key,
                                       idx |-> 0, err |-> e, handled |-> 0]]
  /\ thrown' = [thrown EXCEPT ![loc[t].key] = @ \cup {e}]
  /\ cache_mutex' = ReleaseOnThrow(t)
  /\ UNCHANGED returned

\* a thread calls getG4MaterialWithCache(cfg) and computes the key
Call(t, cfg) ==
  /\ pc[t] = "idle"
  /\ ncalls < MaxCalls
  /\ ncalls' = ncalls + 1
  /\ pc' = [pc EXCEPT ![t] = "lock"]
  /\ loc' = [loc EXCEPT ![t] = [NoLoc EXCEPT !.cfg = cfg, !.key = toStrCfg(cfg)]]
  /\ result' = [result EXCEPT ![t] = NoResult]
  /\ UNCHANGED <<cache_mutex, cache, baseCache, table, s_deuterium, nScatter,
                 nInfo, returned, thrown, ndeletes>>
  /\ UNCHANGED others

\* std::lock_guard<std::mutex> guard(cache_mutex)
Lock(t) ==
  /\ pc[t] = "lock"
  /\ MutexFree
  /\ cache_mutex' = t
  /\ pc' = [pc EXCEPT ![t] = "find"]
  /\ loc' = [loc EXCEPT ![t].seen = [len |-> Len(table), cache |-> cache,
                                     baseCache |-> baseCache]]
  /\ UNCHANGED <<result, cache, baseCache, table, s_deuterium, nScatter,
                 nInfo, returned, thrown, ncalls, ndeletes>>
  /\ UNCHANGED others

\* cache.find(cache_key): return the cached material, or go on to build
Find(t) ==
  /\ pc[t] = "find"
  /\ IF CacheHit(cache, loc[t].key)
     THEN Return(t, cache[loc[t].key])
     ELSE /\ pc' = [pc EXCEPT ![t] = "scatter"]
          /\ cache_mutex' = MutexAfterMiss(t)
          /\ UNCHANGED <<loc, result, returned, thrown>>
  /\ cache' = MapAfterFind(cache, loc[t].key)
  /\ UNCHANGED <<baseCache, table, s_deuterium, nScatter, nInfo,
                 ncalls, ndeletes>>
  /\ UNCHANGED others

\* libClashDetect and NCrystal::createScatter(cfg)
CreateScatter(t) ==
  /\ pc[t] = "scatter"
  /\ nScatter' = [nScatter EXCEPT ![loc[t].key] = @ + 1]
  /\ IF createScatterThrows(loc[t].cfg)
     THEN Throw(t, "BadInput: createScatter")
     ELSE /\ pc' = [pc EXCEPT ![t] = "info"]
          /\ UNCHANGED <<loc, result, cache_mutex, returned, thrown>>
  /\ UNCHANGED <<cache, baseCache, table, s_deuterium, nInfo, ncalls, ndeletes>>
  /\ UNCHANGED others

\* a density is never found missing
DensityMissing_never(info) == FALSE

\* if (!info->hasDensity())
DensityMissing(info) == ~info.hasDensity

\* NCrystal::createInfo(cfg) and the check of hasDensity
CreateInfo(t) ==
  /\ pc[t] = "info"
  /\ nInfo' = [nInfo EXCEPT ![loc[t].key] = @ + 1]
  /\ IF DensityMissing(createInfo(loc[t].cfg))
     THEN Throw(t, "MissingInfo: density")
     ELSE /\ pc' = [pc EXCEPT ![t] = "base"]
          /\ UNCHANGED <<loc, result, cache_mutex, returned, thrown>>
  /\ UNCHANGED <<cache, baseCache, table, s_deuterium, nScatter, ncalls, ndeletes>>
  /\ UNCHANGED others

\* the Info object a thread builds from, and the key of its base material
InfoOf(t) == createInfo(loc[t].cfg)

\* chemform_str for the Info object of every configuration
BaseKeys == [c \in Cfgs \cup CfgStrs |-> chemform_str(createInfo(c))]

BaseKeyOf(t) == BaseKeys[loc[t].cfg]

\* whether building a base material makes getDeuteriumG4Element run
NeedsDeuterium(info, cf) ==
  \/ \E i \in 1..Len(cf) : zIsDeuterium(cf[i][1])
  \/ cf = <<>> /\ \E i \in 1..Len(info.composition) : info.composition[i][1] = "D"

\* The build of a base material: new G4Material, its elements, and the
\* insertion into the cache of getBaseG4MaterialWithCache
BuildBase(t) ==
  /\ table' = Append(table,
        [live |-> TRUE, kind |-> "base", key |-> BaseKeyOf(t).key,
         base |-> 0, scatter |-> FALSE,
         elements |-> IF BaseKeyOf(t).cf # <<>> THEN BaseKeyOf(t).cf
                      ELSE InfoOf(t).composition])
  /\ s_deuterium' =
       (s_deuterium \/ NeedsDeuterium(InfoOf(t), BaseKeyOf(t).cf))
  /\ baseCache' = MapPut(baseCache, BaseKeyOf(t).key, Len(table) + 1)
  /\ loc' = [loc EXCEPT ![t].matBase = Len(table) + 1]
  /\ pc' = [pc EXCEPT ![t] = "newmat"]
  /\ UNCHANGED <<result, cache_mutex, returned, thrown>>

\* getBaseG4MaterialWithCache(info)
GetBase(t) ==
  /\ pc[t] = "base"
  /\ \/ /\ BaseKeyOf(t).err # ""
        /\ Throw(t, BaseKeyOf(t).err)
        /\ UNCHANGED <<baseCache, table, s_deuterium>>
     \/ /\ BaseKeyOf(t).err = ""
        /\ CacheHit(baseCache, BaseKeyOf(t).key)
        /\ loc' = [loc EXCEPT ![t].matBase = baseCache[BaseKeyOf(t).key]]
        /\ pc' = [pc EXCEPT ![t] = "newmat"]
        /\ UNCHANGED <<baseCache, table, s_deuterium, result, cache_mutex,
                       returned, thrown>>
     \/ /\ BaseKeyOf(t).err = ""
        /\ ~CacheHit(baseCache, BaseKeyOf(t).key)
        /\ BuildBase(t)
  /\ UNCHANGED <<cache, nScatter, nInfo, ncalls, ndeletes>>
  /\ UNCHANGED others

\* new G4Material("NCrystal::"+cache_key, density, matBase, ...)
NewMaterial(t) ==
  /\ pc[t] = "newmat"
  /\ table' = Append(table,
        [live |-> TRUE, kind |-> "derived", key |-> loc[t].key,
         base |-> loc[t].matBase, scatter |-> FALSE, elements |-> <<>>])
  /\ loc' = [loc EXCEPT ![t].mat = Len(table) + 1]
  /\ pc' = [pc EXCEPT ![t] = AfterNewMaterial]
  /\ UNCHANGED <<result, cache_mutex, cache, baseCache, s_deuterium, nScatter,
                 nInfo, returned, thrown, ncalls, ndeletes>>
  /\ UNCHANGED others

\* Manager::getInstance()->addScatterProperty(mat, scatter)
AddScatterProperty(t) ==
  /\ pc[t] = "attach"
  /\ table' = [table EXCEPT ![loc[t].mat].scatter = TRUE]
  /\ pc' = [pc EXCEPT ![t] = "install"]
  /\ UNCHANGED <<loc, result, cache_mutex, cache, baseCache, s_deuterium,
                 nScatter, nInfo, returned, thrown, ncalls, ndeletes>>
  /\ UNCHANGED others

\* cache[cache_key] = mat->GetIndex(); return mat
Install(t) ==
  /\ pc[t] = "install"
  /\ cache' = MapPut(cache, loc[t].key, loc[t].mat)
  /\ Return(t, loc[t].mat)
  /\ UNCHANGED <<baseCache, table, s_deuterium, nScatter, nInfo, ncalls, ndeletes>>
  /\ UNCHANGED others

\* G4NCrystal::createMaterial(cfgstr): the constructor of MatCfg, then the
\* call of getG4MaterialWithCache, both inside the try block
createMaterial(t, cfgstr) ==
  /\ pc[t] = "idle"
  /\ ncalls < MaxCalls
  /\ ncalls' = ncalls + 1
  /\ IF MatCfgThrows(cfgstr)
     THEN /\ pc' = [pc EXCEPT ![t] = "catch"]
          /\ loc' = [loc EXCEPT ![t] = [NoLoc EXCEPT !.via = "createMaterial"]]
          /\ result' = [result EXCEPT ![t] =
                [NoResult EXCEPT !.kind = "err", !.err = "BadInput: MatCfg"]]
     ELSE /\ pc' = [pc EXCEPT ![t] = "lock"]
          /\ loc' = [loc EXCEPT ![t] =
                [NoLoc EXCEPT !.cfg = cfgstr, !.key = toStrCfg(cfgstr),
                              !.via = "createMaterial"]]
          /\ result' = [result EXCEPT ![t] = NoResult]
  /\ UNCHANGED <<cache_mutex, cache, baseCache, table, s_deuterium, nScatter,
                 nInfo, returned, thrown, ndeletes>>
  /\ UNCHANGED others

\* the catch clause of createMaterial: Manager::handleError gets the
\* exception; when it returns, createMaterial returns 0, and when it does
\* not (it raises a Geant4 exception) createMaterial does not return
handleError(t) ==
  /\ pc[t] = "catch"
  /\ \E returns \in BOOLEAN :
       /\ pc' = [pc EXCEPT ![t] = IF returns THEN "idle" ELSE "aborted"]
       /\ result' = [result EXCEPT ![t].handled = @ + 1,
                                   ![t].kind = IF returns THEN "null" ELSE "fatal"]
  /\ UNCHANGED <<loc, cache_mutex, cache, baseCache, table, s_deuterium,
                 nScatter, nInfo, returned, thrown, ncalls, ndeletes>>
  /\ UNCHANGED others

\* The material a thread is building, or its base, is not yet the user's.
UnderConstruction(i) ==
  \E t \in Threads :
    pc[t] \notin {"idle", "catch", "aborted"}
      /\ (loc[t].matBase = i \/ loc[t].mat = i)

\* The Geant4 user deletes a material: G4Material's destructor sets its slot
\* of the material table to NULL.
DeleteMaterial(i) ==
  /\ ndeletes < MaxDeletes
  /\ Live(i)
  /\ ~UnderConstruction(i)
  /\ table' = [table EXCEPT ![i].live = FALSE]
  /\ ndeletes' = ndeletes + 1
  /\ UNCHANGED <<pc, loc, result, cache_mutex, cache, baseCache, s_deuterium,
                 nScatter, nInfo, returned, thrown, ncalls>>
  /\ UNCHANGED others

\* the steps of a thread inside getG4MaterialWithCache
Inside(t) ==
  \/ Lock(t)
  \/ Find(t)
  \/ CreateScatter(t)
  \/ CreateInfo(t)
  \/ GetBase(t)
  \/ NewMaterial(t)
  \/ AddScatterProperty(t)
  \/ Install(t)

Step(t) ==
  \/ \E cfg \in Cfgs : Call(t, cfg)
  \/ Inside(t)

Next ==
  \/ \E t \in Threads : Step(t)
  \/ \E i \in 1..Len(table) : DeleteMaterial(i)

Spec == Init /\ [][Next]_vars

\* The configurations of the runs checked for progress: one that builds,
\* one for which createScatter throws, one whose Info has no density.
FairCfgs == { c \in Cfgs : c.data # "D2O.ncmat" /\ Len(c.pars) < 2 }

FairNext ==
  \/ \E t \in Threads : \E cfg \in FairCfgs : Call(t, cfg)
  \/ \E t \in Threads : Inside(t)
  \/ \E i \in 1..Len(table) : DeleteMaterial(i)

\* Each thread that is inside the function takes its next step; a thread
\* waiting for cache_mutex gets it once it stays free.
FairSpec ==
  /\ Init
  /\ [][FairNext]_vars
  /\ \A t \in Threads : WF_vars(Inside(t))

\* MatCfg::toStrCfg, applied to a configuration and to its own result.
CanonInit ==
  /\ G4Init
  /\ cmake = NoCMake
  /\ reg = NoReg
  /\ deut = NoDeut
  /\ chem = NoChem
  /\ canon \in { [cfg |-> c, key |-> NoKey, from |-> NoKey] :
                  c \in WellFormedCfgs }

\* cache_key = cfg.toStrCfg(true,0)
Canonicalize ==
  /\ canon.key = NoKey
  /\ canon' = [canon EXCEPT !.key = toStrCfg(canon.cfg)]
  /\ UNCHANGED <<g4vars, cmake, reg, deut, chem>>

\* MatCfg cfg(cache_key): the key is read as a configuration
Reparse ==
  /\ canon.key # NoKey
  /\ canon.from = NoKey
  /\ canon' = [cfg |-> canon.key, key |-> NoKey, from |-> canon.key]
  /\ UNCHANGED <<g4vars, cmake, reg, deut, chem>>

CanonNext == Canonicalize \/ Reparse

CanonSpec == CanonInit /\ [][CanonNext]_vars

----------------------------------------------------------------------------
(* CMakeLists.txt: the names of the plugins that are built in.  A name is  *)
(* the sequence of the codes of its characters.                            *)

\* a comparison of the names as they are written
ToLower_asGiven(name) == name

\* string(TOLOWER ...)
ToLower(name) ==
  [i \in 1..Len(name) |-> IF name[i] \in 65..90 THEN name[i] + 32 ELSE name[i]]

\* string(STRIP ...): without leading and trailing spaces
RECURSIVE Strip(_)
Strip(name) ==
  IF name = <<>> THEN name
  ELSE IF Head(name) = 32 THEN Strip(Tail(name))
  ELSE IF name[Len(name)] = 32 THEN Strip(SubSeq(name, 1, Len(name) - 1))
  ELSE name

\* if (x IN_LIST list)
IN_LIST(x, list) == \E i \in 1..Len(list) : list[i] = x

\* "stdscat;stdabs;stdncmat"
StandardPluginNames ==
  << <<115, 116, 100, 115, 99, 97, 116>>,
     <<115, 116, 100, 97, 98, 115>>,
     <<115, 116, 100, 110, 99, 109, 97, 116>> >>

\* "nxslaz"
NxsLazPluginName == <<110, 120, 115, 108, 97, 122>>

\* The names in the ncplugin_name.txt files of the entries: "StdScat",
\* "stdabs", "NXSLAZ", "Foo", "foo ", "FOO", "Bar"
PluginNames ==
  { <<83, 116, 100, 83, 99, 97, 116>>,
    <<115, 116, 100, 97, 98, 115>>,
    <<78, 88, 83, 76, 65, 90>>,
    <<70, 111, 111>>,
    <<102, 111, 111, 32>>,
    <<70, 79, 79>>,
    <<66, 97, 114>> }

\* An entry of BUILTIN_PLUGIN_LIST: the name in its ncplugin_name.txt,
\* whether its sources are where they should be, and whether its
\* CMakeLists.txt sets NCPLUGIN_SRCFILES.
PluginEntries ==
  { [name |-> n, proper |-> p, provides |-> v] :
      n \in PluginNames, p \in BOOLEAN, v \in BOOLEAN }

\* lines 337-342: the names of the standard plugins
PluginsInit ==
  /\ G4Init
  /\ canon = NoCanon
  /\ reg = NoReg
  /\ deut = NoDeut
  /\ chem = NoChem
  /\ \E extra \in BOOLEAN :
       cmake = [NoCMake EXCEPT
                  !.BUILD_EXTRA = extra,
                  !.all_plugin_names_lc =
                    StandardPluginNames
                      \o (IF extra THEN <<NxsLazPluginName>> ELSE <<>>)]

\* one turn of foreach(pluginentry ${BUILTIN_PLUGIN_LIST}); a FATAL_ERROR
\* ends the run
PluginEntry(e) ==
  /\ cmake.error = ""
  /\ cmake.entries < MaxPlugins
  /\ LET NCPlugin_NAME_lowercase == ToLower(Strip(e.name))
     IN cmake' =
          IF ~e.proper
          THEN [cmake EXCEPT !.entries = @ + 1, !.error = "sources"]
          ELSE IF IN_LIST(NCPlugin_NAME_lowercase, cmake.all_plugin_names_lc)
          THEN [cmake EXCEPT !.entries = @ + 1, !.NCPlugin_NAME = Strip(e.name),
                             !.error = "same name"]
          ELSE [cmake EXCEPT !.entries = @ + 1, !.NCPlugin_NAME = Strip(e.name),
                             !.all_plugin_names_lc =
                               Append(@, NCPlugin_NAME_lowercase),
                             !.error = IF e.provides THEN "" ELSE "variables"]
  /\ UNCHANGED <<g4vars, canon, reg, deut, chem>>

PluginsNext == \E e \in PluginEntries : PluginEntry(e)

PluginsSpec == PluginsInit /\ [][PluginsNext]_vars

----------------------------------------------------------------------------
(* The plugin registry of the running process: resolve, with and without   *)
(* the dynamic loader (the option DISABLE_DYNLOAD of CMakeLists.txt).       *)

\* the names that are resolved, and those registered at startup
BuilderNames == {"stdscat", "myplugin", "other"}
BuiltinNames == {"stdscat"}

\* a resolve that does not ask whether the loader was compiled in
CanLoad_whenDisabled(r, n) == n \notin r.attempted

\* a registry that does not remember the names it tried to load
MarkAttempted_forgets(names, n) == names

\* a miss leads to a load when the loader is there and the name was not
\* tried before
CanLoad(r, n) == r.dynload /\ n \notin r.attempted

\* the name is remembered as tried
MarkAttempted(names, n) == names \cup {n}

\* DISABLE_DYNLOAD defines NCRYSTAL_DISABLE_DYNLOADER: no loader
RegistryInit ==
  /\ G4Init
  /\ canon = NoCanon
  /\ cmake = NoCMake
  /\ deut = NoDeut
  /\ chem = NoChem
  /\ \E DISABLE_DYNLOAD \in BOOLEAN :
       reg = [dynload |-> ~DISABLE_DYNLOAD, registered |-> BuiltinNames,
              attempted |-> {}, loaderrors |-> {}, pc |-> "idle", name |-> "",
              result |-> "none", loads |-> [n \in BuilderNames |-> 0],
              lookups |-> 0, nresolves |-> 0]

\* resolve(name): the first lookup
resolve(n) ==
  /\ reg.pc = "idle"
  /\ reg.nresolves < MaxResolves
  /\ reg' =
       IF n \in reg.registered
       THEN [reg EXCEPT !.name = n, !.nresolves = @ + 1, !.lookups = 1,
                        !.result = "builder"]
       ELSE IF CanLoad(reg, n)
       THEN [reg EXCEPT !.name = n, !.nresolves = @ + 1, !.lookups = 1,
                        !.result = "none", !.pc = "load"]
       ELSE [reg EXCEPT !.name = n, !.nresolves = @ + 1, !.lookups = 1,
                        !.result = "UnknownBuilderError"]
  /\ UNCHANGED <<g4vars, canon, cmake, deut, chem>>

\* the load of a shared module for the name: it fails, or it succeeds and
\* the module registers the name, or it succeeds and the module does not
LoadModule ==
  /\ reg.pc = "load"
  /\ \E outcome \in {"fails", "registers", "registers nothing"} :
       reg' = [reg EXCEPT
                 !.loads[reg.name] = @ + 1,
                 !.attempted = MarkAttempted(@, reg.name),
                 !.registered = IF outcome = "registers"
                                THEN @ \cup {reg.name} ELSE @,
                 !.loaderrors = IF outcome = "fails"
                                THEN @ \cup {reg.name} ELSE @,
                 !.result = IF outcome = "fails"
                            THEN "PluginLoadError" ELSE "none",
                 !.pc = IF outcome = "fails" THEN "idle" ELSE "retry"]
  /\ UNCHANGED <<g4vars, canon, cmake, deut, chem>>

\* the lookup after a load that succeeded; for a second miss the
\* specification names both errors
RetryLookup ==
  /\ reg.pc = "retry"
  /\ \E e \in {"UnknownBuilderError", "PluginLoadError"} :
       reg' =
         IF reg.name \in reg.registered
         THEN [reg EXCEPT !.lookups = 2, !.pc = "idle", !.result = "builder"]
         ELSE [reg EXCEPT !.lookups = 2, !.pc = "idle", !.result = e,
                          !.loaderrors = IF e = "PluginLoadError"
                                         THEN @ \cup {reg.name} ELSE @]
  /\ UNCHANGED <<g4vars, canon, cmake, deut, chem>>

RegistryNext ==
  \/ \E n \in BuilderNames : resolve(n)
  \/ LoadModule
  \/ RetryLookup

RegistrySpec == RegistryInit /\ [][RegistryNext]_vars

\* The threads call createMaterial.
CreateMaterialNext ==
  \/ \E t \in Threads : \E cfgstr \in CfgStrs : createMaterial(t, cfgstr)
  \/ \E t \in Threads : Inside(t)
  \/ \E t \in Threads : handleError(t)

CreateMaterialSpec == Init /\ [][CreateMaterialNext]_vars

----------------------------------------------------------------------------
(* Properties.                                                             *)

\* a thread is in a call of getG4MaterialWithCache
InCall(t) == pc[t] \notin {"idle", "catch", "aborted"}

\* a thread is between the cache-miss decision and the cache insertion
Building(t) ==
  pc[t] \in {"scatter", "info", "base", "newmat", "attach", "install"}

\* the cache holds a ready entry for the key: an index of a live material
ReadyEntry(k) == k \in DOMAIN cache /\ table[cache[k]].live

\* C1 (as claimed): single-flight -- for every key the build step
\* (createScatter, createInfo, the derived G4Material) runs at most once
\* during the lifetime of the cache.
C1_SingleFlight == \A k \in Keys : nScatter[k] <= 1

\* C2 (as claimed): all calls with the same cache key receive the same
\* G4Material instance or the identical error, never a mix.
C2_SameInstance ==
  \A k \in Keys :
    /\ Cardinality(returned[k]) <= 1
    /\ Cardinality(thrown[k]) <= 1
    /\ returned[k] = {} \/ thrown[k] = {}

\* C2 (amended): every material returned for a key that is still alive is the
\* one the cache entry of the key designates, so all calls with the same key
\* made while that material is alive receive the same instance; a key that
\* fails always fails with the same error and never yields a material.
C2_SharedResult ==
  \A k \in Keys :
    /\ \A i \in returned[k] :
         table[i].live => k \in DOMAIN cache /\ cache[k] = i
    /\ Cardinality(thrown[k]) <= 1
    /\ returned[k] = {} \/ thrown[k] = {}

\* Two threads, with configurations written differently but of one key, hold
\* the same live instance; and it is the second instance built for that key.
C2_Witness ==
  \E t1, t2 \in Threads :
    /\ t1 # t2
    /\ result[t1].kind = "mat" /\ result[t2].kind = "mat"
    /\ result[t1].key = result[t2].key
    /\ result[t1].idx = result[t2].idx
    /\ table[result[t1].idx].live
    /\ Len(result[t1].key.pars) = 2
    /\ Cardinality(returned[result[t1].key]) = 2

\* C3 (as claimed): once the build for a key has failed, no later request for
\* the key invokes the builder (createScatter) again.
C3_FailureMemoized == \A k \in Keys : thrown[k] # {} => nScatter[k] <= 1

C5_NoConcurrentBuild ==
  \A t1, t2 \in Threads :
    (t1 # t2 /\ Building(t1) /\ Building(t2)) => loc[t1].key # loc[t2].key

\* One thread is building the material of a key another thread has asked for.
C5_Witness ==
  \E t1, t2 \in Threads :
    /\ t1 # t2
    /\ Building(t1)
    /\ pc[t2] = "lock"
    /\ loc[t1].key = loc[t2].key

\* C6: a lookup that finds a ready entry returns the material of that entry
\* and constructs nothing -- no createScatter, no createInfo, no base
\* material, no G4Material; both caches and the material table stay as they
\* were.
C6_HitNoConstruction ==
  [][\A t \in Threads :
       (pc[t] = "find" /\ ReadyEntry(loc[t].key) /\ pc'[t] # pc[t])
         => /\ pc'[t] = "idle"
            /\ result'[t].kind = "mat"
            /\ result'[t].idx = cache[loc[t].key]
            /\ UNCHANGED <<cache, baseCache, table, s_deuterium, nScatter,
                           nInfo>>]_vars

\* Two threads hold the material of a key that was built once: the second
\* call was a hit.
C6_Witness ==
  \E t1, t2 \in Threads :
    /\ t1 # t2
    /\ result[t1].kind = "mat"
    /\ result[t2] = result[t1]
    /\ nScatter[result[t1].key] = 1
    /\ nInfo[result[t1].key] = 1
    /\ Len(table) = 2

\* C7: a caller that has to wait for cache_mutex waits only until the build
\* in progress ends, whether it returns or throws; every call that was
\* started ends, with a material or with an error.
C7_WaitersProgress ==
  \A t \in Threads :
    (pc[t] = "lock") ~> (pc[t] = "idle" /\ result[t].kind \in {"mat", "err"})

\* A thread waits for cache_mutex while another is in a build that will throw.
C7_Witness ==
  \E t1, t2 \in Threads :
    /\ t1 # t2
    /\ pc[t1] = "scatter"
    /\ createScatterThrows(loc[t1].cfg)
    /\ pc[t2] = "lock"

C9_FullyConstructed ==
  /\ \A k \in DOMAIN cache :
       /\ table[cache[k]].kind = "derived"
       /\ table[cache[k]].key = k
       /\ table[cache[k]].scatter
  /\ \A k \in Keys : \A i \in returned[k] :
       table[i].kind = "derived" /\ table[i].key = k /\ table[i].scatter

\* A material without its scatter property is in the material table, being
\* built, while the cache already serves another one.
C9_Witness ==
  /\ DOMAIN cache # {}
  /\ \E t \in Threads : result[t].kind = "mat"
  /\ \E i \in 1..Len(table) :
       table[i].kind = "derived" /\ ~table[i].scatter

\* C10 (as claimed): the object a cache entry designates exists as long as
\* the entry does.
C10_EntryAlive ==
  /\ \A k \in DOMAIN cache : table[cache[k]].live
  /\ \A b \in DOMAIN baseCache : table[baseCache[b]].live

\* C10 (amended): the caches hold indices into the material table, not
\* references; a material can be deleted while its entry exists, and the
\* lookup then treats the entry as a miss -- the material a call returns, and
\* the base material it builds on, are alive when they are handed out.
C10_NeverHandsOutDeleted ==
  [][\A t \in Threads :
       /\ (result'[t] # result[t] /\ result'[t].kind = "mat")
            => table'[result'[t].idx].live
       /\ (loc'[t].matBase # loc[t].matBase /\ loc'[t].matBase # 0)
            => table'[loc'[t].matBase].live]_vars

\* The entry of a key designates a deleted material and a thread looking the
\* key up has gone on to build.
C10_Witness ==
  \E t \in Threads :
    /\ pc[t] = "scatter"
    /\ loc[t].key \in DOMAIN cache
    /\ ~table[cache[loc[t].key]].live

\* C11: no eviction -- neither the cache of getG4MaterialWithCache nor the
\* cache of getBaseG4MaterialWithCache ever loses a key; a key enters the
\* first only by the insertion that ends a successful build of that key, and
\* the second only together with the base material just built for it.
C11_NoEviction ==
  [][/\ DOMAIN cache \subseteq DOMAIN cache'
     /\ DOMAIN baseCache \subseteq DOMAIN baseCache'
     /\ \A k \in DOMAIN cache' \ DOMAIN cache :
          \E t \in Threads :
            /\ pc[t] = "install"
            /\ loc[t].key = k
            /\ result'[t].kind = "mat"
            /\ result'[t].idx = cache'[k]
            /\ table[cache'[k]].kind = "derived"
            /\ table[cache'[k]].key = k
     /\ \A b \in DOMAIN baseCache' \ DOMAIN baseCache :
          /\ Len(table') = Len(table) + 1
          /\ baseCache'[b] = Len(table')
          /\ table'[Len(table')].kind = "base"
          /\ table'[Len(table')].key = b
          /\ \E t \in Threads : pc[t] = "base" /\ pc'[t] = "newmat"]_vars

\* Both caches hold two keys, after two builds that succeeded and one that
\* failed.
C11_Witness ==
  /\ Cardinality(DOMAIN cache) = 2
  /\ Cardinality(DOMAIN baseCache) = 2
  /\ \E k \in Keys : thrown[k] # {}

\* the key of the base material of a derived material, from its own key
BaseKeyOfKey(k) ==
  BaseKeys[CHOOSE c \in Cfgs \cup CfgStrs : c.data = k.data].key

\* C12 (as claimed): the base material is constructed once per base key --
\* the material table never holds two base materials of one key, and all
\* derived materials of configurations with the same base key reference the
\* same base material.
C12_OneBasePerKey ==
  /\ \A i, j \in 1..Len(table) :
       (table[i].kind = "base" /\ table[j].kind = "base"
          /\ table[i].key = table[j].key) => i = j
  /\ \A d, e \in 1..Len(table) :
       (table[d].kind = "derived" /\ table[e].kind = "derived"
          /\ BaseKeyOfKey(table[d].key) = BaseKeyOfKey(table[e].key))
         => table[d].base = table[e].base

\* C12 (amended): per base key there is at most one base material alive, the
\* one the base cache designates; every derived material references a base
\* material of its own base key, built before it, and as long as that base
\* material is alive it is the one the base cache designates -- so all
\* derived materials whose base is alive share one base instance, whatever
\* their temperature or packing factor.
C12_SharedBase ==
  /\ \A i, j \in 1..Len(table) :
       (table[i].kind = "base" /\ table[j].kind = "base"
          /\ table[i].key = table[j].key /\ table[i].live /\ table[j].live)
         => i = j
  /\ \A b \in DOMAIN baseCache :
       /\ table[baseCache[b]].kind = "base"
       /\ table[baseCache[b]].key = b
  /\ \A d \in 1..Len(table) :
       table[d].kind = "derived" =>
         /\ table[d].base \in 1..(d - 1)
         /\ table[table[d].base].kind = "base"
         /\ table[table[d].base].key = BaseKeyOfKey(table[d].key)
         /\ table[table[d].base].live
              => baseCache[BaseKeyOfKey(table[d].key)] = table[d].base

\* Two derived materials of configurations that differ in temperature and
\* packing factor are alive and reference the one base material made.
C12_Witness ==
  /\ Len(table) = 3
  /\ \E d, e \in 1..Len(table) :
       /\ table[d].kind = "derived" /\ table[e].kind = "derived"
       /\ table[d].key # table[e].key
       /\ table[d].scatter /\ table[e].scatter
       /\ table[d].base = table[e].base
       /\ table[table[d].base].live

\* C13: a call of getG4MaterialWithCache that throws (createScatter or
\* createInfo throws, the Info has no density, the composition is missing or
\* invalid) has created no G4Material, base or derived, and leaves both cache
\* maps exactly as they were when it took cache_mutex.
C13_FailedBuildNoEffect ==
  [][\A t \in Threads :
       (InCall(t) /\ result'[t] # result[t] /\ result'[t].kind = "err")
         => /\ loc[t].matBase = 0
            /\ loc[t].mat = 0
            /\ Len(table') = loc[t].seen.len
            /\ cache' = loc[t].seen.cache
            /\ baseCache' = loc[t].seen.baseCache]_vars

\* A build has failed for want of a composition, after its density was
\* found, while both caches hold entries of another configuration.
C13_Witness ==
  \E t \in Threads :
    /\ pc[t] = "catch"
    /\ result[t].err = "MissingInfo: composition"
    /\ DOMAIN cache # {}
    /\ DOMAIN baseCache # {}

\* C14: every NCrystal exception raised in createMaterial, by the constructor
\* of MatCfg or by getG4MaterialWithCache, is passed to Manager::handleError
\* exactly once; when the handler returns, createMaterial returns a null
\* material, and a call that did not fail returns its material without the
\* handler being called.
C14_ReportedOnce ==
  \A t \in Threads :
    /\ result[t].handled <= 1
    /\ result[t].kind = "err" => pc[t] = "catch" /\ result[t].handled = 0
    /\ pc[t] = "catch" => result[t].kind = "err" /\ result[t].err # ""
    /\ (pc[t] = "idle" /\ result[t].kind # "none") =>
         \/ /\ result[t].kind = "mat"
            /\ result[t].err = ""
            /\ result[t].handled = 0
            /\ result[t].idx \in 1..Len(table)
         \/ /\ result[t].kind = "null"
            /\ result[t].err # ""
            /\ result[t].handled = 1
            /\ result[t].idx = 0
    /\ pc[t] = "aborted" => result[t].kind = "fatal" /\ result[t].handled = 1

\* One call of createMaterial has returned null after the constructor of
\* MatCfg threw, another after the build threw.
C14_Witness ==
  \E t1, t2 \in Threads :
    /\ pc[t1] = "idle" /\ pc[t2] = "idle"
    /\ result[t1].kind = "null" /\ result[t1].err = "BadInput: MatCfg"
    /\ result[t2].kind = "null" /\ result[t2].err = "MissingInfo: density"

\* the parameters of a configuration, in every order
Reorderings(pars) ==
  { [i \in 1..Len(pars) |-> pars[f[i]]] : f \in Permutations(1..Len(pars)) }

\* a configuration without its i-th parameter
WithoutPar(cfg, i) ==
  [data |-> cfg.data,
   pars |-> SubSeq(cfg.pars, 1, i - 1) \o SubSeq(cfg.pars, i + 1, Len(cfg.pars))]

\* C15: the cache key is idempotent and independent of the order of the
\* parameters -- the key of a configuration read back from a key is that key,
\* and a well-formed configuration has the same key in whatever order its
\* parameters are written.
C15_Canonical ==
  canon.key # NoKey =>
    /\ canon.from # NoKey => canon.key = canon.from
    /\ toStrCfg(canon.key) = canon.key
    /\ \A q \in Reorderings(canon.cfg.pars) :
         toStrCfg([data |-> canon.cfg.data, pars |-> q]) = canon.key

\* A key of two parameters has been read back as a configuration and
\* canonicalized again.
C15_Witness ==
  /\ canon.key # NoKey
  /\ canon.from # NoKey
  /\ Len(canon.key.pars) = 2

\* C16: a configuration that sets a parameter to its documented default
\* (temp=293.15, packfact=1, dcutoff=0) has the same cache key as the
\* configuration without that parameter.
C16_DefaultOmitted ==
  canon.key # NoKey =>
    /\ \A i \in 1..Len(canon.cfg.pars) :
         canon.cfg.pars[i][2] = ParDefault(canon.cfg.pars[i][1])
           => toStrCfg(WithoutPar(canon.cfg, i)) = canon.key
    /\ (\A i \in 1..Len(canon.cfg.pars) : canon.cfg.pars[i][1] # "temp")
         => toStrCfg([data |-> canon.cfg.data,
                      pars |-> Append(canon.cfg.pars, <<"temp", "293.15">>)])
              = canon.key

\* The key of a configuration with temp=293.15 and a packing factor has been
\* made: it has the packing factor only.
C16_Witness ==
  /\ canon.cfg.pars = << <<"temp", "293.15">>, <<"packfact", "0.8">> >>
  /\ canon.key = [data |-> canon.cfg.data, pars |-> << <<"packfact", "0.8">> >>]

\* two names are equal when case is ignored
SameUpToCase(a, b) ==
  /\ Len(a) = Len(b)
  /\ \A i \in 1..Len(a) :
       (IF a[i] \in 97..122 THEN a[i] - 32 ELSE a[i])
         = (IF b[i] \in 97..122 THEN b[i] - 32 ELSE b[i])

\* C17: plugin names are unique when case is ignored -- a plugin whose name
\* equals, up to case, the name of a standard plugin (nxslaz among them when
\* BUILD_EXTRA is on) or of an earlier entry of the list is rejected with an
\* error and the list of names stays as it was; the list never holds two
\* names that are equal up to case.
C17_UniquePluginNames ==
  /\ [](\A i, j \in 1..Len(cmake.all_plugin_names_lc) :
          SameUpToCase(cmake.all_plugin_names_lc[i],
                       cmake.all_plugin_names_lc[j]) => i = j)
  /\ [][(/\ cmake'.entries = cmake.entries + 1
         /\ cmake'.error # "sources"
         /\ \E i \in 1..Len(cmake.all_plugin_names_lc) :
              SameUpToCase(cmake'.NCPlugin_NAME, cmake.all_plugin_names_lc[i]))
          => /\ cmake'.error = "same name"
             /\ cmake'.all_plugin_names_lc = cmake.all_plugin_names_lc]_vars

\* With BUILD_EXTRA on, a first plugin was added and a second one, whose name
\* differs from a name of the list in case only, was rejected.
C17_Witness ==
  /\ cmake.BUILD_EXTRA
  /\ cmake.error = "same name"
  /\ Len(cmake.all_plugin_names_lc) = 5
  /\ ~IN_LIST(cmake.NCPlugin_NAME, cmake.all_plugin_names_lc)

\* C18: with dynamic loading disabled, resolve of a name that is not
\* registered fails with UnknownBuilderError, and no shared module is ever
\* loaded.
C18_NoLoadWhenDisabled ==
  ~reg.dynload =>
    /\ \A n \in DOMAIN reg.loads : reg.loads[n] = 0
    /\ reg.pc = "idle"
    /\ reg.registered = BuiltinNames
    /\ reg.result # "none" =>
         IF reg.name \in reg.registered
         THEN reg.result = "builder"
         ELSE reg.result = "UnknownBuilderError"

\* Without the loader, a name that is not registered was resolved twice.
C18_Witness ==
  /\ ~reg.dynload
  /\ reg.name = "myplugin"
  /\ reg.result = "UnknownBuilderError"
  /\ reg.nresolves = 2

\* C19: a load that failed is not tried again -- over any sequence of
\* resolve calls a module is loaded at most once per name, and once resolve
\* has ended in PluginLoadError for a name no later resolve loads for it.
C19_LoadAtMostOnce ==
  /\ [](\A n \in DOMAIN reg.loads : reg.loads[n] <= 1)
  /\ [][\A n \in reg.loaderrors : reg'.loads[n] = reg.loads[n]]_vars

\* A name whose load failed was resolved again: the second resolve ended in
\* UnknownBuilderError and the module was loaded once.
C19_Witness ==
  /\ reg.name \in reg.loaderrors
  /\ reg.result = "UnknownBuilderError"
  /\ reg.loads[reg.name] = 1
  /\ reg.lookups = 1

\* C21: when the index cached for a key designates a NULL slot of the
\* material table, both functions treat the lookup as a miss, build a new
\* material, overwrite the entry with the new index and return the new
\* material; neither ever returns a null pointer.
C21_RebuildAfterDeletion ==
  [][\A t \in Threads :
       /\ (/\ pc[t] = "find" /\ pc'[t] # pc[t]
           /\ loc[t].key \in DOMAIN cache
           /\ ~table[cache[loc[t].key]].live)
            => pc'[t] = "scatter" /\ result'[t] = result[t]
       /\ (pc[t] = "install" /\ pc'[t] # pc[t])
            => /\ cache'[loc[t].key] = loc[t].mat
               /\ loc[t].mat = Len(table)
               /\ table'[loc[t].mat].live
               /\ result'[t].kind = "mat"
               /\ result'[t].idx = loc[t].mat
               /\ loc[t].key \in DOMAIN cache
                    => /\ cache[loc[t].key] < loc[t].mat
                       /\ ~table[cache[loc[t].key]].live
       /\ (/\ pc[t] = "base" /\ pc'[t] = "newmat"
           /\ BaseKeyOf(t).key \in DOMAIN baseCache
           /\ ~table[baseCache[BaseKeyOf(t).key]].live)
            => /\ Len(table') = Len(table) + 1
               /\ baseCache'[BaseKeyOf(t).key] = Len(table')
               /\ table'[Len(table')].live
               /\ table'[Len(table')].kind = "base"
               /\ loc'[t].matBase = Len(table')
       /\ (result'[t] # result[t] /\ result'[t].kind = "mat")
            => result'[t].idx \in 1..Len(table')
       /\ (pc[t] = "base" /\ pc'[t] = "newmat")
            => loc'[t].matBase \in 1..Len(table')
                 /\ table'[loc'[t].matBase].live]_vars

\* A base material was deleted and built again for a second configuration,
\* whose call has returned a material on the new base.
C21_Witness ==
  \E t \in Threads : \E b \in DOMAIN baseCache :
    /\ result[t].kind = "mat"
    /\ table[result[t].idx].base = baseCache[b]
    /\ table[baseCache[b]].live
    /\ \E i \in 1..Len(table) :
         /\ i < baseCache[b]
         /\ table[i].kind = "base"
         /\ table[i].key = b
         /\ ~table[i].live

\* C22: the static map of getBaseG4MaterialWithCache is read and written
\* only by a thread that holds cache_mutex of getG4MaterialWithCache, so no
\* two threads are in getBaseG4MaterialWithCache at the same time.
C22_BaseCacheUnderMutex ==
  /\ [](\A t \in Threads : pc[t] = "base" => cache_mutex = t)
  /\ [][baseCache' # baseCache
          => \E t \in Threads :
               pc[t] = "base" /\ cache_mutex = t /\ cache_mutex' = t]_vars

\* One thread is in getBaseG4MaterialWithCache, with the base cache filled,
\* while another has called and waits for cache_mutex.
C22_Witness ==
  \E t1, t2 \in Threads :
    /\ pc[t1] = "base"
    /\ pc[t2] = "lock"
    /\ DOMAIN baseCache # {}

----------------------------------------------------------------------------
(* getDeuteriumG4Element: the calls of several threads, step by step.      *)

\* the calls of getDeuteriumG4Element that are followed
MaxDeutCalls == 4

\* a lock that excludes nobody
DeutMutexFree_always == TRUE

\* std::lock_guard<std::mutex> guard(s_mutex) can be taken
DeutMutexFree == deut.s_mutex = NoThread

\* a thread calls getDeuteriumG4Element
DeutCall(t) ==
  /\ deut.pc[t] = "idle"
  /\ deut.ncalls < MaxDeutCalls
  /\ deut' = [deut EXCEPT !.pc[t] = "lock", !.ncalls = @ + 1]
  /\ UNCHANGED <<g4vars, canon, cmake, reg, chem>>

\* std::lock_guard<std::mutex> guard(s_mutex)
DeutLock(t) ==
  /\ deut.pc[t] = "lock"
  /\ DeutMutexFree
  /\ deut' = [deut EXCEPT !.pc[t] = "check", !.s_mutex = t]
  /\ UNCHANGED <<g4vars, canon, cmake, reg, chem>>

\* if (!s_deuterium)
DeutCheck(t) ==
  /\ deut.pc[t] = "check"
  /\ deut' = [deut EXCEPT
       !.pc[t] = IF deut.s_deuterium = 0 THEN "element" ELSE "return"]
  /\ UNCHANGED <<g4vars, canon, cmake, reg, chem>>

\* s_deuterium = new G4Element("Deuterium", "Deuterium", 1)
DeutNewElement(t) ==
  /\ deut.pc[t] = "element"
  /\ deut' = [deut EXCEPT !.pc[t] = "isotope",
                          !.elements = @ + 1,
                          !.s_deuterium = deut.elements + 1]
  /\ UNCHANGED <<g4vars, canon, cmake, reg, chem>>

\* s_deuterium->AddIsotope(new G4Isotope("Deuteron", 1, 2), 1)
DeutAddIsotope(t) ==
  /\ deut.pc[t] = "isotope"
  /\ deut' = [deut EXCEPT !.pc[t] = "return", !.isotopes = @ + 1]
  /\ UNCHANGED <<g4vars, canon, cmake, reg, chem>>

\* the guard goes out of scope without releasing s_mutex
DeutMutexAfterReturn_keeps(t) == deut.s_mutex

\* the destructor of the lock_guard releases s_mutex
DeutMutexAfterReturn(t) ==
  IF deut.s_mutex = t THEN NoThread ELSE deut.s_mutex

\* return s_deuterium, and the guard releases s_mutex
DeutReturn(t) ==
  /\ deut.pc[t] = "return"
  /\ deut' = [deut EXCEPT !.pc[t] = "idle",
                          !.ret[t] = deut.s_deuterium,
                          !.nret[t] = @ + 1,
                          !.s_mutex = DeutMutexAfterReturn(t)]
  /\ UNCHANGED <<g4vars, canon, cmake, reg, chem>>

DeuteriumNext ==
  \E t \in Threads :
    \/ DeutCall(t)
    \/ DeutLock(t)
    \/ DeutCheck(t)
    \/ DeutNewElement(t)
    \/ DeutAddIsotope(t)
    \/ DeutReturn(t)

DeuteriumSpec == Init /\ [][DeuteriumNext]_vars

\* C23: over any interleaving of getDeuteriumG4Element calls the Deuterium
\* G4Element and its Deuteron isotope are created at most once, and every
\* call returns the same non-null element.
C23_DeuteriumSingleton ==
  /\ deut.elements <= 1
  /\ deut.isotopes <= 1
  /\ \A t \in Threads :
       deut.nret[t] > 0
         => /\ deut.ret[t] # 0
            /\ deut.ret[t] = deut.s_deuterium
            /\ deut.elements = 1
            /\ deut.isotopes = 1
  /\ \A t1, t2 \in Threads :
       (deut.nret[t1] > 0 /\ deut.nret[t2] > 0) => deut.ret[t1] = deut.ret[t2]

\* Two threads have had the element returned, one of them twice.
C23_Witness ==
  \E t1, t2 \in Threads :
    /\ t1 # t2
    /\ deut.nret[t1] >= 2
    /\ deut.nret[t2] >= 1
    /\ deut.ret[t1] = 1
    /\ deut.ret[t2] = 1

----------------------------------------------------------------------------
(* getChemicalFormula, getChemicalFormulaInHillSystemString and the        *)
(* elements of the base material, applied to Info objects.                 *)

\* the entries of an atom list that are followed
MaxAtoms == 2

\* atomic numbers of the atom lists: none below 1..119, three inside (H, C, O),
\* one inside and beyond the symbol table, one above, and Deuterium
AtomZs == {0, 1, 6, 8, 110, 120, specialZValueDeuterium}

\* number_per_unit_cell of an atom
AtomCounts == {0, 1, 2, 4}

AtomLists ==
  UNION { [1..n -> AtomZs \X AtomCounts] : n \in 1..MaxAtoms }

\* Info::getComposition(): none, one element Geant4 knows, one it does not
\* know by that name, two elements
Compositions ==
  { <<>>,
    << <<"O", 100>> >>,
    << <<"D", 100>> >>,
    << <<"C", 50>>, <<"H", 50>> >> }

\* the Info objects the functions are applied to
Infos ==
  { [hasDensity |-> TRUE,
     hasComposition |-> c # <<>>, composition |-> c,
     hasAtomInfo |-> a # <<>>, atoms |-> a] :
       c \in Compositions, a \in AtomLists \cup {<<>>} }

\* every element of a formula is looked up in the table of Geant4
ElementFor_nist(z) == [by |-> "FindOrBuildElement(Z)", args |-> <<z>>]

\* the G4Element of an entry of the chemical formula
ElementFor(z) ==
  IF zIsDeuterium(z)
  THEN [by |-> "getDeuteriumG4Element", args |-> <<>>]
  ELSE [by |-> "FindOrBuildElement(Z)", args |-> <<z>>]

\* the G4Element of an entry of the composition
ElementForName(name) ==
  IF name = "D"
  THEN [by |-> "getDeuteriumG4Element", args |-> <<>>]
  ELSE [by |-> "FindOrBuildElement(name)", args |-> <<name>>]

\* the atomic numbers symbol_db.at is called with, in the order of the formula
SymbolLookups(chemform) ==
  LET zs == [i \in 1..Len(chemform) |-> chemform[i][1]]
  IN SelectSeq(zs, LAMBDA z : SymbolOf(z).at)

FormulaInit ==
  /\ G4Init
  /\ canon = NoCanon
  /\ cmake = NoCMake
  /\ reg = NoReg
  /\ deut = NoDeut
  /\ \E i \in Infos : chem = [NoChem EXCEPT !.pc = "start", !.info = i]

\* getChemicalFormula(info, chemform)
GetChemicalFormula ==
  /\ chem.pc = "start"
  /\ LET r == getChemicalFormula(chem.info)
     IN chem' = [chem EXCEPT !.pc = IF r.err # "" THEN "thrown" ELSE "formula",
                             !.err = r.err,
                             !.cf = r.cf]
  /\ UNCHANGED <<g4vars, canon, cmake, reg, deut>>

\* chemform.empty(): the key is made of the composition, if there is one
CompositionKey ==
  /\ chem.pc = "formula"
  /\ chem.cf = <<>>
  /\ LET r == chemform_str(chem.info)
     IN chem' = [chem EXCEPT !.pc = IF r.err # "" THEN "thrown" ELSE "key",
                             !.err = r.err,
                             !.key = r.key]
  /\ UNCHANGED <<g4vars, canon, cmake, reg, deut>>

\* chemform_str = getChemicalFormulaInHillSystemString(chemform)
HillString ==
  /\ chem.pc = "formula"
  /\ chem.cf # <<>>
  /\ chem' = [chem EXCEPT !.pc = "key",
                          !.key = getChemicalFormulaInHillSystemString(chem.cf),
                          !.lookups = SymbolLookups(chem.cf)]
  /\ UNCHANGED <<g4vars, canon, cmake, reg, deut>>

\* the elements added to the new base material
AddElements ==
  /\ chem.pc = "key"
  /\ chem' = [chem EXCEPT
       !.pc = "done",
       !.elements =
          IF chem.cf # <<>>
          THEN [i \in 1..Len(chem.cf) |-> ElementFor(chem.cf[i][1])]
          ELSE [i \in 1..Len(chem.info.composition) |->
                  ElementForName(chem.info.composition[i][1])]]
  /\ UNCHANGED <<g4vars, canon, cmake, reg, deut>>

FormulaNext ==
  \/ GetChemicalFormula
  \/ CompositionKey
  \/ HillString
  \/ AddElements

FormulaSpec == FormulaInit /\ [][FormulaNext]_vars

\* C24: the atomic number 1001 is never passed to Geant4. An entry of the
\* formula with Z = 1001 is written as "D" without a lookup in the symbol
\* table and becomes the element of getDeuteriumG4Element; FindOrBuildElement
\* and symbol_db.at are only called with other atomic numbers.
C24_DeuteriumNotPassedToGeant4 ==
  /\ \A i \in 1..Len(chem.lookups) :
       chem.lookups[i] # specialZValueDeuterium
  /\ \A i \in 1..Len(chem.elements) :
       chem.elements[i].by = "FindOrBuildElement(Z)"
         => chem.elements[i].args # <<specialZValueDeuterium>>
  /\ (chem.pc \in {"key", "done"} /\ chem.cf # <<>>)
       => /\ Len(chem.lookups) =
               Cardinality({i \in 1..Len(chem.cf) :
                              chem.cf[i][1] \in 1..(symbol_db_size - 1)})
          /\ \A i \in 1..Len(chem.cf) :
               chem.cf[i][1] = specialZValueDeuterium
                 => \E j \in 1..Len(chem.key) : chem.key[j][1] = "D"
  /\ (chem.pc = "done" /\ chem.cf # <<>>)
       => \A i \in 1..Len(chem.cf) :
            chem.cf[i][1] = specialZValueDeuterium
              <=> chem.elements[i].by = "getDeuteriumG4Element"

\* The elements of a formula of Deuterium and a second element were added.
C24_Witness ==
  /\ chem.pc = "done"
  /\ Len(chem.cf) = 2
  /\ \E i \in 1..2 : chem.cf[i][1] = specialZValueDeuterium
  /\ \E i \in 1..2 : chem.elements[i].by = "FindOrBuildElement(Z)"
  /\ chem.lookups # <<>>

\* whether getChemicalFormula reads the atom list of an Info
AtomPath(info) == info.hasAtomInfo /\ ~Monoatomic(info)

\* whether getChemicalFormula has returned a formula for chem.info
FormulaReturned == chem.pc \in {"formula", "key", "done"}

\* the largest count of the atom lists
MaxAtomCount == CHOOSE m \in AtomCounts : \A c \in AtomCounts : c <= m

\* d divides every count of the sequence of <<Z, count>>
DividesAll(d, cf) == \A i \in 1..Len(cf) : cf[i][2] % d = 0

\* an Info whose unit cell is k times as large
ScaledInfo(info, k) ==
  [info EXCEPT !.atoms = [i \in 1..Len(info.atoms) |->
                            <<info.atoms[i][1], k * info.atoms[i][2]>>]]

\* C25: on the atom-info path getChemicalFormula returns the nonzero counts
\* of the unit cell, each divided by the greatest common divisor of all of
\* them: the returned counts have gcd 1 and keep their ratios, and a unit
\* cell whose counts are a common multiple gives the same formula and the
\* same base-material key. greatestCommonDivisor is Euclid's gcd, with
\* gcd(a, 0) = a.
C25_ReducedByGcd ==
  /\ \A a, b \in 0..MaxAtomCount :
       LET g == greatestCommonDivisor(a, b)
       IN /\ b = 0 => g = a
          /\ (a # 0 \/ b # 0)
               => /\ g >= 1 /\ a % g = 0 /\ b % g = 0
                  /\ \A d \in 1..MaxAtomCount :
                       (a % d = 0 /\ b % d = 0) => d <= g
  /\ (FormulaReturned /\ AtomPath(chem.info))
       => LET nz == SelectSeq(chem.info.atoms, LAMBDA a : a[2] > 0)
              g == CHOOSE d \in 1..MaxAtomCount :
                     /\ DividesAll(d, nz)
                     /\ \A e \in 1..MaxAtomCount : DividesAll(e, nz) => e <= d
          IN /\ Len(chem.cf) = Len(nz)
             /\ { <<chem.cf[i][1], g * chem.cf[i][2]>> : i \in 1..Len(chem.cf) }
                  = { nz[i] : i \in 1..Len(nz) }
             /\ \A d \in 2..MaxAtomCount : ~DividesAll(d, chem.cf)
             /\ \A k \in 2..3 :
                  LET r == chemform_str(ScaledInfo(chem.info, k))
                  IN /\ r.err = ""
                     /\ r.cf = chem.cf
                     /\ chem.pc \in {"key", "done"} => r.key = chem.key

\* A unit cell of two elements with counts 2 and 4 gave the formula with
\* counts 1 and 2.
C25_Witness ==
  /\ FormulaReturned
  /\ AtomPath(chem.info)
  /\ Len(chem.info.atoms) = 2
  /\ chem.info.atoms[1][2] = 4
  /\ chem.info.atoms[2][2] = 2
  /\ Len(chem.cf) = 2
  /\ {chem.cf[1][2], chem.cf[2][2]} = {1, 2}

\* the atomic numbers of the entries of a sequence of <<Z, count>>
ZsOf(cf) == { cf[i][1] : i \in 1..Len(cf) }

\* the same atomic number in two entries of the atom list with nonzero count
DuplicateZ(atoms) ==
  \E i, j \in 1..Len(atoms) :
    /\ i # j
    /\ atoms[i][1] = atoms[j][1]
    /\ atoms[i][2] # 0
    /\ atoms[j][2] # 0

\* C26: a formula getChemicalFormula returns on the atom-info path is sorted
\* by strictly increasing atomic number, every element of the unit cell in
\* it exactly once; an atom list with the same atomic number in two entries
\* of nonzero count is rejected with BadInput and no formula is returned.
C26_SortedUnique ==
  /\ (FormulaReturned /\ AtomPath(chem.info))
       => /\ \A i \in 1..(Len(chem.cf) - 1) : chem.cf[i][1] < chem.cf[i + 1][1]
          /\ ZsOf(chem.cf) = ZsOf(SelectSeq(chem.info.atoms, LAMBDA a : a[2] # 0))
          /\ ~DuplicateZ(chem.info.atoms)
  /\ (chem.pc # "start" /\ AtomPath(chem.info) /\ DuplicateZ(chem.info.atoms))
       => /\ chem.pc = "thrown"
          /\ chem.cf = <<>>
          /\ chem.err \in {"BadInput: duplicate entries",
                           "BadInput: invalid atomic number"}
          /\ (\A i \in 1..Len(chem.info.atoms) :
                chem.info.atoms[i][1] \in (1..119) \cup {1001})
               => chem.err = "BadInput: duplicate entries"

\* An atom list with two entries for oxygen was rejected.
C26_Witness ==
  /\ chem.pc = "thrown"
  /\ chem.err = "BadInput: duplicate entries"
  /\ AtomPath(chem.info)
  /\ Len(chem.info.atoms) = 2
  /\ chem.info.atoms[1][1] = 8
  /\ chem.info.atoms[2][1] = 8

\* the atomic numbers NCrystal supports
SupportedZs == (1..119) \cup {1001}

\* C27: on the atom-info path an atom entry whose atomic number is not in
\* 1..119 and not 1001 raises BadInput, even with count zero; entries with
\* count zero are left out of the formula; if all counts are zero the call
\* raises BadInput (empty unit cell); a returned formula has only valid
\* atomic numbers with counts of at least 1.
C27_Validated ==
  (chem.pc # "start" /\ AtomPath(chem.info))
    => LET atoms == chem.info.atoms
           badZ == \E i \in 1..Len(atoms) : atoms[i][1] \notin SupportedZs
           empty == \A i \in 1..Len(atoms) : atoms[i][2] = 0
       IN /\ badZ => /\ chem.pc = "thrown"
                     /\ chem.err = "BadInput: invalid atomic number"
          /\ (~badZ /\ empty) => /\ chem.pc = "thrown"
                                 /\ chem.err = "BadInput: empty unit cell"
          /\ FormulaReturned
               => /\ ~badZ /\ ~empty
                  /\ chem.cf # <<>>
                  /\ \A i \in 1..Len(chem.cf) :
                       /\ chem.cf[i][1] \in SupportedZs
                       /\ chem.cf[i][2] >= 1
                  /\ \A i \in 1..Len(atoms) :
                       atoms[i][2] = 0
                         => \/ atoms[i][1] \notin ZsOf(chem.cf)
                            \/ \E j \in 1..Len(atoms) :
                                 atoms[j][1] = atoms[i][1] /\ atoms[j][2] # 0

\* An atom list with atomic number 120 at count zero, beside oxygen, was
\* rejected.
C27_Witness ==
  /\ chem.pc = "thrown"
  /\ chem.err = "BadInput: invalid atomic number"
  /\ AtomPath(chem.info)
  /\ Len(chem.info.atoms) = 2
  /\ chem.info.atoms[1] = <<8, 2>>
  /\ chem.info.atoms[2] = <<120, 0>>

\* C28: when the Info has a composition of exactly one element whose name
\* maps to a valid atomic number Z, getChemicalFormula returns exactly
\* [(Z, 1)] without consulting the atom info; in every other case without
\* atom info it returns an empty formula.
C28_MonoatomicShortcut ==
  chem.pc # "start"
    => LET info == chem.info
           mono == /\ info.hasComposition
                   /\ Len(info.composition) = 1
                   /\ GetZ(info.composition[1][1]) \in SupportedZs
       IN /\ mono
               => /\ FormulaReturned
                  /\ chem.err = ""
                  /\ chem.cf = << <<GetZ(info.composition[1][1]), 1>> >>
          /\ (~mono /\ ~info.hasAtomInfo)
               => /\ chem.cf = <<>>
                  /\ chem.pc = "thrown"
                       => /\ ~info.hasComposition
                          /\ chem.err = "MissingInfo: composition"

\* The composition is oxygen alone and the atom list, which has an atomic
\* number of 0, was not read: the formula is O.
C28_Witness ==
  /\ FormulaReturned
  /\ chem.info.composition = << <<"O", 100>> >>
  /\ chem.info.hasAtomInfo
  /\ chem.info.atoms[1][1] = 0
  /\ chem.cf = << <<8, 1>> >>

\* atomic numbers of the formulas the Hill-system string is made of: H, C, O,
\* one beyond the symbol table, and Deuterium
HillZs == {1, 6, 8, 110, specialZValueDeuterium}

\* the elements of a set of atomic numbers in increasing order
RECURSIVE SortedSeq(_)
SortedSeq(S) ==
  IF S = {} THEN <<>>
  ELSE LET m == CHOOSE x \in S : \A y \in S : x <= y
       IN <<m>> \o SortedSeq(S \ {m})

\* The formulas getChemicalFormula returns over HillZs with counts 1 and 2:
\* strictly increasing atomic numbers, counts without a common divisor
HillFormulas ==
  UNION { { [i \in 1..Len(SortedSeq(S)) |-> <<SortedSeq(S)[i], n[i]>>] :
              n \in { m \in [1..Cardinality(S) -> {1, 2}] :
                        \E i \in 1..Cardinality(S) : m[i] = 1 } } :
          S \in (SUBSET HillZs) \ {{}} }

\* an Info with atom info whose formula is f
InfoOfFormula(f) ==
  [hasDensity |-> TRUE, hasComposition |-> FALSE, composition |-> <<>>,
   hasAtomInfo |-> TRUE, atoms |-> f]

\* getChemicalFormula has returned one of the formulas
HillInit ==
  /\ G4Init
  /\ canon = NoCanon
  /\ cmake = NoCMake
  /\ reg = NoReg
  /\ deut = NoDeut
  /\ \E f \in HillFormulas :
       chem = [NoChem EXCEPT !.pc = "formula", !.info = InfoOfFormula(f),
                             !.cf = getChemicalFormula(InfoOfFormula(f)).cf]

HillNext == HillString \/ AddElements

HillSpec == HillInit /\ [][HillNext]_vars

\* the symbols of the inputs in alphabetical order
AlphabeticalSymbols == <<"Al", "C", "D", "Elem<110>", "H", "O">>

AlphaRank(s) ==
  CHOOSE i \in 1..Len(AlphabeticalSymbols) : AlphabeticalSymbols[i] = s

\* the text written for the elements the symbol table does not reach
FallbackNames ==
  { ElemName(z) : z \in { y \in AtomZs \cap SupportedZs :
                            ~zIsDeuterium(y) /\ y >= symbol_db_size } }

\* whether the Hill-system string has been made from chem.cf
HillStringMade == chem.pc \in {"key", "done"} /\ chem.cf # <<>>

\* one term per entry of the formula: the symbol, followed by the count
\* unless the count is 1
HillTermsOfFormula ==
  /\ Len(chem.key) = Len(chem.cf)
  /\ { chem.key[i] : i \in 1..Len(chem.key) }
       = { (IF chem.cf[i][2] = 1 THEN <<SymbolOf(chem.cf[i][1]).symb>>
            ELSE <<SymbolOf(chem.cf[i][1]).symb, chem.cf[i][2]>>) :
             i \in 1..Len(chem.cf) }

\* the place of a symbol in the Hill system; with fallbackLast the names
\* "Elem<Z>" come after every symbol
HillRank(s, any_carbon, fallbackLast) ==
  IF any_carbon /\ s = "C" THEN 1
  ELSE IF any_carbon /\ s = "H" THEN 2
  ELSE IF any_carbon /\ s = "D" THEN 3
  ELSE IF fallbackLast /\ s \in FallbackNames THEN 100 + AlphaRank(s)
  ELSE 10 + AlphaRank(s)

HillOrdered(fallbackLast) ==
  LET any_carbon == 6 \in ZsOf(chem.cf)
  IN \A i, j \in 1..Len(chem.key) :
       i < j => HillRank(chem.key[i][1], any_carbon, fallbackLast)
                  < HillRank(chem.key[j][1], any_carbon, fallbackLast)

\* C29 as stated: the string has one term per entry of the formula, the
\* symbol followed by the count (omitted when 1); with carbon in the formula
\* the order is C, H, D and then all other elements alphabetically by
\* symbol, without carbon all elements alphabetically by symbol.
C29_HillOrder ==
  HillStringMade => (HillTermsOfFormula /\ HillOrdered(FALSE))

\* C29, amended: as stated for the elements the symbol table of Geant4
\* names and Deuterium; an element with an atomic number of symbol_db.size()
\* or more is written "Elem<Z>" and comes after all other terms.
C29_HillOrderFallbackLast ==
  HillStringMade => (HillTermsOfFormula /\ HillOrdered(TRUE))

\* The string of a formula of all five elements: C, H, D, O and, last,
\* "Elem<110>".
C29_Witness ==
  /\ HillStringMade
  /\ ZsOf(chem.cf) = HillZs
  /\ [i \in 1..5 |-> chem.key[i][1]] = <<"C", "H", "D", "O", "Elem<110>">>

\* C30: in the Hill-system string Deuterium is placed right after Hydrogen:
\* for every formula with both H and D (Z = 1001), with or without carbon,
\* the term of D immediately follows the term of H.
C30_DeuteriumAfterHydrogen ==
  (HillStringMade /\ {1, specialZValueDeuterium} \subseteq ZsOf(chem.cf))
    => \E i \in 1..(Len(chem.key) - 1) :
         chem.key[i][1] = "H" /\ chem.key[i + 1][1] = "D"

\* C31: missing information is an error, not a material.
\* getG4MaterialWithCache raises MissingInfo when the Info has no density,
\* and getBaseG4MaterialWithCache raises MissingInfo when the chemical
\* formula is empty and the Info has no composition; in both cases no
\* material is created and nothing is cached.
C31_MissingInfoIsError ==
  /\ [](/\ \A k \in DOMAIN cache :
             createInfo(k).hasDensity
               /\ (createInfo(k).hasComposition \/ createInfo(k).hasAtomInfo)
        /\ \A i \in 1..Len(table) :
             table[i].kind = "derived"
               => createInfo(table[i].key).hasDensity
                    /\ (createInfo(table[i].key).hasComposition
                          \/ createInfo(table[i].key).hasAtomInfo))
  /\ [][\A t \in Threads :
          /\ (/\ pc[t] = "info" /\ pc'[t] # "info"
              /\ ~InfoOf(t).hasDensity)
               => /\ result'[t].kind = "err"
                  /\ result'[t].err = "MissingInfo: density"
                  /\ table' = table
                  /\ cache' = cache
                  /\ baseCache' = baseCache
          /\ (/\ pc[t] = "base" /\ pc'[t] # "base"
              /\ ~InfoOf(t).hasAtomInfo
              /\ ~InfoOf(t).hasComposition)
               => /\ result'[t].kind = "err"
                  /\ result'[t].err = "MissingInfo: composition"
                  /\ table' = table
                  /\ cache' = cache
                  /\ baseCache' = baseCache]_vars

\* One call has failed for want of a density and another for want of a
\* composition, and the material table and both caches are empty.
C31_Witness ==
  \E t1, t2 \in Threads :
    /\ result[t1].err = "MissingInfo: density"
    /\ result[t2].err = "MissingInfo: composition"
    /\ table = <<>>
    /\ cache = <<>>
    /\ baseCache = <<>>

----------------------------------------------------------------------------
(* CMakeLists.txt: the RPATH properties of the executables and of the      *)
(* G4NCrystal library. Lists are sequences; an undefined variable is the   *)
(* empty list; a target is a record of its name and its properties.        *)

\* "$ORIGIN/${NCrystal_relpath_BINDIR2LIBDIR}"
OriginRelLibDir == "$ORIGIN/<BINDIR2LIBDIR>"

\* get_filename_component(tmp "${CMAKE_INSTALL_PREFIX}/${NCrystal_LIBDIR}" ABSOLUTE)
AbsLibDir == "<CMAKE_INSTALL_PREFIX>/<LIBDIR>"

\* if (<variable>) on a list variable: false when it is empty
IfList(l) == l # <<>>

\* add_executable or add_library, followed by set_target_properties with
\* the list when the list is not empty
AddTarget(targets, name, props) ==
  Append(targets, [name |-> name,
                   props |-> IF IfList(props) THEN props ELSE <<>>])

\* the options and the platform of a configuration run
RpathInit ==
  /\ G4Init
  /\ canon = NoCanon
  /\ reg = NoReg
  /\ deut = NoDeut
  /\ chem = NoChem
  /\ \E modify, apple, examples, g4hooks, g4found \in BOOLEAN :
       \E linkpath \in {"", "TRUE", "FALSE"} :
         cmake = [NoCMake EXCEPT
                    !.pc = "options",
                    !.MODIFY_RPATH = modify,
                    !.APPLE = apple,
                    !.BUILD_EXAMPLES = examples,
                    !.BUILD_G4HOOKS = g4hooks,
                    !.Geant4_FOUND = g4found,
                    !.CMAKE_INSTALL_RPATH_USE_LINK_PATH = linkpath]

\* set( binaryprops "" ) and set( libncg4props "" )
SetPropertyLists ==
  /\ cmake.pc = "options"
  /\ cmake' = [cmake EXCEPT !.pc = "rpath",
                            !.binaryprops = <<>>,
                            !.libncg4props = <<>>]
  /\ UNCHANGED <<g4vars, canon, reg, deut, chem>>

\* if ( MODIFY_RPATH ) ... endif()
ModifyRpath ==
  /\ cmake.pc = "rpath"
  /\ cmake' =
       IF ~cmake.MODIFY_RPATH
       THEN [cmake EXCEPT !.pc = "examples"]
       ELSE IF ~cmake.APPLE
       THEN [cmake EXCEPT
               !.pc = "examples",
               !.CMAKE_INSTALL_RPATH_USE_LINK_PATH = IF @ = "" THEN "TRUE" ELSE @,
               !.binaryprops = @ \o <<"INSTALL_RPATH", OriginRelLibDir>>,
               !.libncg4props = @ \o <<"INSTALL_RPATH", "$ORIGIN">>]
       ELSE [cmake EXCEPT
               !.pc = "examples",
               !.CMAKE_INSTALL_RPATH_USE_LINK_PATH = IF @ = "" THEN "TRUE" ELSE @,
               !.binaryprops = @ \o <<"INSTALL_RPATH", AbsLibDir>>,
               !.libncg4brops = @ \o <<"INSTALL_RPATH", AbsLibDir>>]
  /\ UNCHANGED <<g4vars, canon, reg, deut, chem>>

\* if (BUILD_EXAMPLES AND EXAMPLES_NC): the executables of the examples
Examples ==
  /\ cmake.pc = "examples"
  /\ cmake' =
       IF cmake.BUILD_EXAMPLES
       THEN [cmake EXCEPT
               !.pc = "g4hooks",
               !.targets = AddTarget(@, "ncrystal_example", cmake.binaryprops)]
       ELSE [cmake EXCEPT !.pc = "g4hooks"]
  /\ UNCHANGED <<g4vars, canon, reg, deut, chem>>

\* if (BUILD_G4HOOKS): find_package(Geant4), the G4NCrystal library and the
\* executables of its examples
G4Hooks ==
  /\ cmake.pc = "g4hooks"
  /\ cmake' =
       IF ~cmake.BUILD_G4HOOKS
       THEN [cmake EXCEPT !.pc = "done"]
       ELSE IF ~cmake.Geant4_FOUND
       THEN [cmake EXCEPT !.pc = "done", !.error = "Geant4"]
       ELSE [cmake EXCEPT !.pc = "g4examples",
                          !.targets = AddTarget(@, "G4NCrystal",
                                                cmake.libncg4props)]
  /\ UNCHANGED <<g4vars, canon, reg, deut, chem>>

\* if (BUILD_EXAMPLES AND EXAMPLES_NCG4)
G4Examples ==
  /\ cmake.pc = "g4examples"
  /\ cmake' =
       IF cmake.BUILD_EXAMPLES
       THEN [cmake EXCEPT
               !.pc = "done",
               !.targets = AddTarget(@, "ncrystal_example_g4",
                                     cmake.binaryprops)]
       ELSE [cmake EXCEPT !.pc = "done"]
  /\ UNCHANGED <<g4vars, canon, reg, deut, chem>>

RpathNext ==
  \/ SetPropertyLists
  \/ ModifyRpath
  \/ Examples
  \/ G4Hooks
  \/ G4Examples

RpathSpec == RpathInit /\ [][RpathNext]_vars

\* the INSTALL_RPATH entry the claim gives the G4NCrystal library
LibraryRpath == IF cmake.APPLE THEN AbsLibDir ELSE "$ORIGIN"

\* C32: when MODIFY_RPATH is ON, the property list applied to the
\* G4NCrystal library, libncg4props, receives an INSTALL_RPATH entry on
\* every platform, $ORIGIN when not on Apple and the absolute library
\* directory on Apple, as binaryprops does for the executables; the
\* G4NCrystal target gets that property.
C32_LibraryRpathEveryPlatform ==
  (cmake.MODIFY_RPATH /\ cmake.pc \in {"examples", "g4hooks", "g4examples", "done"})
    => /\ cmake.libncg4props = <<"INSTALL_RPATH", LibraryRpath>>
       /\ cmake.binaryprops # <<>>
       /\ \A i \in 1..Len(cmake.targets) :
            cmake.targets[i].name = "G4NCrystal"
              => cmake.targets[i].props = <<"INSTALL_RPATH", LibraryRpath>>

----------------------------------------------------------------------------
(* The two mutexes: getG4MaterialWithCache, with the call of               *)
(* getDeuteriumG4Element inside getBaseG4MaterialWithCache as steps of its *)
(* own, next to calls of getDeuteriumG4Element from outside.               *)

\* The configurations of these runs: heavy water, whose base material has
\* Deuterium, and aluminium
LockOrderCfgs ==
  { c \in Cfgs : Len(c.pars) = 0 /\ createInfo(c).hasDensity }

\* the thread is about to build a base material with Deuterium in it
NestedNeeded(t) ==
  /\ pc[t] = "base"
  /\ BaseKeyOf(t).err = ""
  /\ ~CacheHit(baseCache, BaseKeyOf(t).key)
  /\ NeedsDeuterium(InfoOf(t), BaseKeyOf(t).cf)

\* elem = getDeuteriumG4Element(), called from getBaseG4MaterialWithCache
EnterDeuterium(t) ==
  /\ NestedNeeded(t)
  /\ deut.pc[t] = "idle"
  /\ pc' = [pc EXCEPT ![t] = "deuterium"]
  /\ deut' = [deut EXCEPT !.pc[t] = "lock"]
  /\ UNCHANGED <<loc, result, cache_mutex, cache, baseCache, table,
                 s_deuterium, nScatter, nInfo, returned, thrown, ncalls,
                 ndeletes, canon, cmake, reg, chem>>

\* getDeuteriumG4Element has returned: the rest of getBaseG4MaterialWithCache
LeaveDeuterium(t) ==
  /\ pc[t] = "deuterium"
  /\ deut.pc[t] = "idle"
  /\ BuildBase(t)
  /\ UNCHANGED <<cache, nScatter, nInfo, ncalls, ndeletes>>
  /\ UNCHANGED others

\* a call of getDeuteriumG4Element by a thread that is in neither function
DirectDeutCall(t) ==
  /\ pc[t] = "idle"
  /\ ncalls + deut.ncalls < MaxCalls
  /\ DeutCall(t)

\* a step of a thread that is inside one of the two functions
LockOrderProgress(t) ==
  \/ ~NestedNeeded(t) /\ Inside(t)
  \/ EnterDeuterium(t)
  \/ LeaveDeuterium(t)
  \/ DeutLock(t)
  \/ DeutCheck(t)
  \/ DeutNewElement(t)
  \/ DeutAddIsotope(t)
  \/ DeutReturn(t)

LockOrderNext ==
  \/ \E t \in Threads : \E cfg \in LockOrderCfgs :
       /\ deut.pc[t] = "idle"
       /\ ncalls + deut.ncalls < MaxCalls
       /\ Call(t, cfg)
  \/ \E t \in Threads : DirectDeutCall(t)
  \/ \E t \in Threads : LockOrderProgress(t)

LockOrderSpec == Init /\ [][LockOrderNext]_vars

\* the thread waits for a mutex another thread holds
Blocked(t) ==
  \/ pc[t] = "lock" /\ cache_mutex # NoThread
  \/ deut.pc[t] = "lock" /\ deut.s_mutex # NoThread

\* the thread is inside getG4MaterialWithCache or getDeuteriumG4Element
InEither(t) == pc[t] # "idle" \/ deut.pc[t] # "idle"

\* C33: no deadlock between the two mutexes. The Deuterium mutex is
\* acquired either alone or by the thread that holds cache_mutex, no thread
\* that holds the Deuterium mutex acquires cache_mutex, and no interleaving
\* of getG4MaterialWithCache and getDeuteriumG4Element calls reaches a state
\* in which every thread is blocked: while some thread is inside, some
\* thread inside can take a step.
C33_NoDeadlock ==
  /\ \A t \in Threads :
       (deut.pc[t] # "idle")
         => \/ pc[t] = "idle" /\ cache_mutex # t
            \/ pc[t] = "deuterium" /\ cache_mutex = t
  /\ \A t \in Threads : deut.s_mutex = t => pc[t] # "lock"
  /\ ~(\A t \in Threads : Blocked(t))
  /\ (\E t \in Threads : InEither(t))
       => ENABLED (\E u \in Threads : LockOrderProgress(u))

\* One thread holds cache_mutex and waits, inside
\* getBaseG4MaterialWithCache, for the Deuterium mutex, which a thread that
\* called getDeuteriumG4Element from outside holds.
C33_Witness ==
  \E t1, t2 \in Threads :
    /\ t1 # t2
    /\ pc[t1] = "deuterium"
    /\ cache_mutex = t1
    /\ deut.pc[t1] = "lock"
    /\ deut.s_mutex = t2
    /\ pc[t2] = "idle"

====
